---- MODULE Spec2Model ----
(***************************************************************************)
(* A model of bigcheck (src/src/lib.rs): the run engine (run, catch,       *)
(* print_panic) and the built-in Arbitrary instances.                      *)
(*                                                                         *)
(* Values of every input type are held as sequences of naturals:           *)
(*   u32        <<n>>                                                      *)
(*   char       <<code>>                                                   *)
(*   String     the sequence of its char codes                             *)
(*   (A,..)     the sequence of its components, instantiated at u32        *)
(*   Vec<A>     the sequence of its elements, instantiated at u32          *)
(*                                                                         *)
(* f64 sizes are held as exact fractions [num, den]; to_u32/to_uint        *)
(* truncate.  Sizes stay far below 2^31, so u32 arithmetic never wraps     *)
(* inside the explored configurations.                                     *)
(***************************************************************************)
EXTENDS Integers, Sequences, FiniteSets, TLC

VARIABLES
    config,            \* Config {seed, max_size, max_tests, max_shrinks}
    f,                 \* the predicate under test (fn(Input) -> ())
    ty,                \* the Input type run is instantiated at
    pc,                \* position of run's control flow
    phase,             \* "Running" | "Shrinking" | "Done"
    rng,               \* number of values drawn so far from the StdRng
    test,              \* loop variable of line 64
    size,              \* size computed at line 65, as a fraction
    input,             \* line 66
    result,            \* line 67 / 74: Result<(), String>
    failure,           \* line 69
    shrunk_input,      \* line 70
    shrunk_failure,    \* line 71
    shrinks,           \* iterations of the loop of line 72 completed
    next_shrunk_input, \* line 73
    threads,           \* spawned threads that were not joined yet
    issued,            \* thread ids in the order catch spawned them
    completed,         \* thread ids in the order their closure ended
    num_grow,          \* calls of Arbitrary::grow
    num_shrink,        \* calls of Arbitrary::shrink
    num_faults,        \* predicate invocations that panicked
    outcome,           \* the value run returned
    runs,              \* calls of run so far
    prev,              \* what the previous call of run returned
    checked            \* check, the caller of run: "pending", "returned"
                       \* or "panicked"

vars == <<config, f, ty, pc, phase, rng, test, size, input, result, failure,
          shrunk_input, shrunk_failure, shrinks, next_shrunk_input, threads,
          issued, completed, num_grow, num_shrink, num_faults, outcome,
          runs, prev, checked>>

----------------------------------------------------------------------------
(* Bounds of the explored configurations *)

MaxTests == 2

MaxShrinks == 2

(* Program constants *)

CHAR_MAX == 1114111

SURROGATE_LO == 55296

SURROGATE_HI == 57343

O_CODE == 111

UNPRINTABLE == "<Unprintable panic>"

InputTypes == {"u32", "char", "String", "tuple2", "tuple3", "tuple4",
               "tuple5", "Vec"}

TupleArity(t) ==
    CASE t = "tuple2" -> 2
      [] t = "tuple3" -> 3
      [] t = "tuple4" -> 4
      [] t = "tuple5" -> 5
      [] OTHER -> 0

(* Seeds: each is the stream of raw values its StdRng yields, repeated.
   The seeds explored for a type are those whose strings and vectors stay
   short. *)
SeedsFor(t) ==
    CASE t = "u32"    -> { <<0>>, <<0, 5, 3, 1>>, <<1, 2, 1>> }
      [] t = "char"   -> { <<0>>, <<0, 111, 5, 1>>, <<0, 55296>>,
                           <<0, 60000, 55296>> }
      [] t = "String" -> { <<0>>, <<0, 1, 111>>, <<0, 2, 111, 1, 1, 0>>,
                           <<0, 2, 111, 5, 0, 3>>, <<0, 3, 111, 2, 111, 1>>,
                           <<0, 1, 55296>>, <<0, 1, 60000, 0, 55296>> }
      [] t = "Vec"    -> { <<0>>, <<0, 2, 5, 3, 1, 0, 4>>, <<0, 1, 1>>,
                           <<0, 3, 1, 7, 2, 2>> }
      [] OTHER        -> { <<0>>, <<4, 3, 2, 7, 1>>, <<1, 2, 0>>,
                           <<0, 1, 5, 2, 3, 4, 1>> }

MaxSizes == {0, 100, 1000, 200000}

Configs(t) ==
    [seed : SeedsFor(t), max_size : MaxSizes, max_tests : 0..MaxTests,
     max_shrinks : 0..MaxShrinks]

(* The configuration of the spec's concrete scenario (section 8). *)
ScenarioConfigs ==
    [seed : SeedsFor("String"), max_size : {100}, max_tests : {100},
     max_shrinks : {100}]

----------------------------------------------------------------------------
(* Predicates under test: what one invocation does with its argument. *)

Ok == [kind |-> "ok"]

(* a panic payload: is_str, the payload is a &'static str (panic!("..."));
   is_text, the payload is a message, a &str or a String *)
Panic(is_str, msg) ==
    [kind |-> "panic", is_str |-> is_str, is_text |-> is_str, msg |-> msg]

(* the payload of panic!("{}", ..), assert_eq! and panic!(format!(..)):
   a String *)
FormattedPanic(msg) ==
    [kind |-> "panic", is_str |-> FALSE, is_text |-> TRUE, msg |-> msg]

Hang == [kind |-> "hang"]

Predicates == {"pass", "oh_noes", "lt2", "graded", "not_o", "boxed",
               "formatted", "spin"}

StartsWithO(v) == Len(v) > 0 /\ v[1] = O_CODE

Apply(p, t, v) ==
    CASE p = "pass"    -> Ok
      [] p = "oh_noes" -> Panic(TRUE, "oh noes")
      [] p = "lt2"     -> IF \E i \in 1..Len(v) : v[i] >= 2
                          THEN Panic(TRUE, "assertion failed: x < 2")
                          ELSE Ok
      [] p = "graded"  -> IF v[1] >= 4 THEN Panic(TRUE, "big")
                          ELSE IF v[1] >= 2 THEN Panic(TRUE, "small")
                          ELSE Ok
      [] p = "not_o"   -> IF StartsWithO(v)
                          THEN Panic(TRUE, "assertion failed: !string.starts_with(\"o\")")
                          ELSE Ok
      [] p = "boxed"   -> Panic(FALSE, "oh noes")
      [] p = "formatted" -> FormattedPanic("oh noes: 0")
      [] p = "spin"    -> Hang

Faults(p, t, v) == Apply(p, t, v).kind = "panic"

print_panic_placeholder(payload) == UNPRINTABLE

print_panic(payload) ==
    IF payload.is_str THEN payload.msg ELSE UNPRINTABLE

----------------------------------------------------------------------------
(* The seeded generator and the Arbitrary instances *)

(* The i-th raw value (i = 0, 1, ..) of the StdRng seeded with s. *)
Raw(s, i) == s[(i % Len(s)) + 1]

(* Range::new(low, high).ind_sample(rng) on the raw value raw. *)
Sample(low, high, raw) == low + (raw % (high - low))

(* f64::to_u32 / to_uint: None for NaN (0.0 / 0.0), else the truncation *)
IsSome(sz) == sz.den # 0

to_uint(sz) == IF sz.den = 0 THEN 0 ELSE sz.num \div sz.den

Min(a, b) == IF a < b THEN a ELSE b

(* char::from_u32(code) is Some *)
IsChar(code) ==
    /\ code <= CHAR_MAX
    /\ ~(code >= SURROGATE_LO /\ code <= SURROGATE_HI)

ElemType(t) == IF t = "String" THEN "char" ELSE "u32"

GrowScalarUnsized(t, s, pos, sz) ==
    [val |-> Sample(0, CHAR_MAX + 1, Raw(s, pos)), used |-> 1, ok |-> TRUE]

(* grow of u32 and char: one draw.  [val, used, ok], ok = FALSE when an
   unwrap panics. *)
GrowScalar(t, s, pos, sz) ==
    IF t = "char"
    THEN LET char_size == Min(to_uint(sz), CHAR_MAX)
             char_code == Sample(0, char_size + 1, Raw(s, pos))
         IN  [val |-> char_code, used |-> 1,
              ok |-> IsSome(sz) /\ IsChar(char_code)]
    ELSE [val |-> Sample(0, to_uint(sz) + 1, Raw(s, pos)), used |-> 1,
          ok |-> IsSome(sz)]

(* n consecutive grows of the scalar type t starting at draw pos *)
GrowMany(t, n, s, pos, sz) ==
    LET each == [k \in 1..n |-> GrowScalar(t, s, pos + k - 1, sz)]
    IN  [val  |-> [k \in 1..n |-> each[k].val],
         used |-> n,
         ok   |-> \A k \in 1..n : each[k].ok]

Grow(t, s, pos, sz) ==
    CASE t \in {"u32", "char"} ->
           LET g == GrowScalar(t, s, pos, sz)
           IN  [val |-> <<g.val>>, used |-> 1, ok |-> g.ok]
      [] t \in {"String", "Vec"} ->
           LET length == Sample(0, to_uint(sz) + 1, Raw(s, pos))
               g      == GrowMany(ElemType(t), length, s, pos + 1, sz)
           IN  [val |-> g.val, used |-> 1 + length,
                ok |-> IsSome(sz) /\ g.ok]
      [] OTHER ->
           GrowMany("u32", TupleArity(t), s, pos, sz)

ShrinkScalarWide(t, s, pos, value) ==
    [val |-> Sample(0, value + 2, Raw(s, pos)), used |-> 1, ok |-> TRUE]

(* shrink of u32 and char: one draw *)
ShrinkScalar(t, s, pos, value) ==
    LET code == Sample(0, value + 1, Raw(s, pos))
    IN  [val |-> code, used |-> 1, ok |-> (t = "char") => IsChar(code)]

RemoveFrom(v, ix) == SubSeq(v, 1, ix - 1)

(* Vec::remove(ix), ix counted from 1 *)
RemoveAt(v, ix) ==
    [k \in 1..(Len(v) - 1) |-> IF k < ix THEN v[k] ELSE v[k + 1]]

InsertAt(v, ix, e) ==
    [k \in 1..(Len(v) + 1) |->
        IF k < ix THEN v[k] ELSE IF k = ix THEN e ELSE v[k - 1]]

(* shrink of String and Vec; coin is what the unseeded random() returned *)
ShrinkSeq(t, s, pos, value, coin) ==
    IF Len(value) > 0
    THEN LET ix   == Sample(0, Len(value), Raw(s, pos)) + 1
             elem == value[ix]
             rest == RemoveAt(value, ix)
             sh   == ShrinkScalar(ElemType(t), s, pos + 1, elem)
         IN  IF coin
             THEN [val |-> InsertAt(rest, ix, sh.val), used |-> 2,
                   ok |-> sh.ok]
             ELSE [val |-> rest, used |-> 1, ok |-> TRUE]
    ELSE [val |-> value, used |-> 0, ok |-> TRUE]

ShrinkTupleAll(t, s, pos, value) ==
    [val  |-> [k \in 1..Len(value) |->
                  ShrinkScalar("u32", s, pos + 1, value[k]).val],
     used |-> 2, ok |-> TRUE]

(* shrink of a tuple: one draw for the component, one for its shrink *)
ShrinkTuple(t, s, pos, value) ==
    LET ix == Sample(0, TupleArity(t), Raw(s, pos)) + 1
        sh == ShrinkScalar("u32", s, pos + 1, value[ix])
    IN  [val |-> [value EXCEPT ![ix] = sh.val], used |-> 2, ok |-> sh.ok]

Shrink(t, s, pos, value, coin) ==
    CASE t \in {"u32", "char"} ->
           LET sh == ShrinkScalar(t, s, pos, value[1])
           IN  [val |-> <<sh.val>>, used |-> 1, ok |-> sh.ok]
      [] t \in {"String", "Vec"} -> ShrinkSeq(t, s, pos, value, coin)
      [] OTHER -> ShrinkTuple(t, s, pos, value)

----------------------------------------------------------------------------
(* run *)

NoValue == <<>>

NoOutcome == [variant |-> "None"]

Success == [variant |-> "Success"]

FailureShrunkOnly(n, i, fl, si, sf) ==
    [variant |-> "Failure", num_tests |-> n, input |-> si, failure |-> sf,
     shrunk_input |-> si, shrunk_failure |-> sf]

(* lines 80-86 *)
Failure(n, i, fl, si, sf) ==
    [variant |-> "Failure", num_tests |-> n, input |-> i, failure |-> fl,
     shrunk_input |-> si, shrunk_failure |-> sf]

Aborted == [variant |-> "Panicked"]

ResOk == [is_err |-> FALSE, err |-> ""]

ResErr(msg) == [is_err |-> TRUE, err |-> msg]

(* The state at the call of run. *)
Entry ==
    /\ pc = "start"
    /\ phase = "Running"
    /\ rng = 0
    /\ test = 0
    /\ size = [num |-> 0, den |-> 1]
    /\ input = NoValue
    /\ result = ResOk
    /\ failure = ""
    /\ shrunk_input = NoValue
    /\ shrunk_failure = ""
    /\ shrinks = 0
    /\ next_shrunk_input = NoValue
    /\ threads = {}
    /\ issued = <<>>
    /\ completed = <<>>
    /\ num_grow = 0
    /\ num_shrink = 0
    /\ num_faults = 0
    /\ outcome = NoOutcome

Applicable(p, t) ==
    /\ (p = "not_o") => (t = "String")
    /\ (p = "graded") => (t = "u32")
    /\ (p \in {"boxed", "formatted", "spin"}) => (t \in {"u32", "String"})

Init ==
    /\ ty \in InputTypes
    /\ f \in {p \in Predicates : Applicable(p, ty)}
    /\ \/ config \in Configs(ty)
       \/ /\ ty = "String"
          /\ f = "not_o"
          /\ config \in ScenarioConfigs
    /\ runs = 1
    /\ prev = NoOutcome
    /\ checked = "pending"
    /\ Entry

(* line 63: the generator is seeded *)
Start ==
    /\ pc = "start"
    /\ pc' = "loop"
    /\ rng' = 0
    /\ UNCHANGED <<config, f, ty, phase, test, size, input, result, failure,
                   shrunk_input, shrunk_failure, shrinks, next_shrunk_input,
                   threads, issued, completed, num_grow, num_shrink,
                   num_faults, outcome, runs, prev, checked>>

SizeOfNext(cfg, t) == [num |-> cfg.max_size * (t + 1), den |-> cfg.max_tests]

(* line 65 *)
SizeOf(cfg, t) == [num |-> cfg.max_size * t, den |-> cfg.max_tests]

LoopDoneInclusive(cfg, t) == t > cfg.max_tests

LoopDoneEarly(cfg, t) == t + 1 >= cfg.max_tests

(* line 64: the range 0..max_tests is exhausted *)
LoopDone(cfg, t) == t >= cfg.max_tests

(* lines 64-66: the next test's size and input *)
GrowStep ==
    /\ pc = "loop"
    /\ ~LoopDone(config, test)
    /\ LET sz == SizeOf(config, test)
           g  == Grow(ty, config.seed, rng, sz)
       IN  /\ g.ok
           /\ size' = sz
           /\ input' = g.val
           /\ rng' = rng + g.used
    /\ num_grow' = num_grow + 1
    /\ pc' = "catch"
    /\ UNCHANGED <<config, f, ty, phase, test, result, failure, shrunk_input,
                   shrunk_failure, shrinks, next_shrunk_input, threads,
                   issued, completed, num_shrink, num_faults, outcome, runs,
                   prev, checked>>

(* lines 65-66: an unwrap inside the size's conversion or inside grow
   panics, and the panic unwinds out of run *)
GrowPanics ==
    /\ pc = "loop"
    /\ ~LoopDone(config, test)
    /\ ~Grow(ty, config.seed, rng, SizeOf(config, test)).ok
    /\ size' = SizeOf(config, test)
    /\ num_grow' = num_grow + 1
    /\ pc' = "panicked"
    /\ phase' = "Done"
    /\ outcome' = Aborted
    /\ UNCHANGED <<config, f, ty, rng, test, input, result, failure,
                   shrunk_input, shrunk_failure, shrinks, next_shrunk_input,
                   threads, issued, completed, num_shrink, num_faults, runs,
                   prev, checked>>

(* the argument catch is called with, at line 67 or line 74 *)
CatchArg == IF phase = "Running" THEN input ELSE next_shrunk_input

(* line 58: the predicate is started in a thread of its own *)
Spawn ==
    /\ pc = "catch"
    /\ threads' = threads \cup
                    {[id |-> Len(issued), arg |-> CatchArg,
                      state |-> "running", res |-> Ok]}
    /\ issued' = Append(issued, Len(issued))
    /\ pc' = "join"
    /\ UNCHANGED <<config, f, ty, phase, rng, test, size, input, result,
                   failure, shrunk_input, shrunk_failure, shrinks,
                   next_shrunk_input, completed, num_grow, num_shrink,
                   num_faults, outcome, runs, prev, checked>>

(* the thread's closure: function(input) returns or panics *)
ThreadRun ==
    /\ \E t \in threads :
         /\ t.state = "running"
         /\ Apply(f, ty, t.arg).kind # "hang"
         /\ threads' = (threads \ {t}) \cup
                         {[t EXCEPT !.state = "finished",
                                    !.res = Apply(f, ty, t.arg)]}
         /\ completed' = Append(completed, t.id)
         /\ num_faults' = num_faults +
                            (IF Apply(f, ty, t.arg).kind = "panic" THEN 1 ELSE 0)
    /\ UNCHANGED <<config, f, ty, pc, phase, rng, test, size, input, result,
                   failure, shrunk_input, shrunk_failure, shrinks,
                   next_shrunk_input, issued, num_grow, num_shrink, outcome,
                   runs, prev, checked>>

JoinableAlways(t) == TRUE

(* handle.join() returns once the thread it names has ended *)
Joinable(t) == t.state = "finished"

(* line 59: join, and the panic payload mapped by print_panic *)
Join ==
    /\ pc = "join"
    /\ \E t \in threads :
         /\ t.id = issued[Len(issued)]
         /\ Joinable(t)
         /\ result' = IF t.res.kind = "panic"
                      THEN ResErr(print_panic(t.res))
                      ELSE ResOk
         /\ threads' = threads \ {t}
    /\ pc' = IF phase = "Running" THEN "tested" ELSE "shrunk"
    /\ UNCHANGED <<config, f, ty, phase, rng, test, size, input, failure,
                   shrunk_input, shrunk_failure, shrinks, next_shrunk_input,
                   issued, completed, num_grow, num_shrink, num_faults,
                   outcome, runs, prev, checked>>

(* line 68, result is Ok: on to the next test *)
TestPassed ==
    /\ pc = "tested"
    /\ ~result.is_err
    /\ test' = test + 1
    /\ pc' = "loop"
    /\ UNCHANGED <<config, f, ty, phase, rng, size, input, result, failure,
                   shrunk_input, shrunk_failure, shrinks, next_shrunk_input,
                   threads, issued, completed, num_grow, num_shrink,
                   num_faults, outcome, runs, prev, checked>>

TestFailedKeepsTesting ==
    /\ pc = "tested"
    /\ result.is_err
    /\ failure' = result.err
    /\ shrunk_input' = input
    /\ shrunk_failure' = result.err
    /\ test' = test + 1
    /\ pc' = "loop"
    /\ UNCHANGED <<config, f, ty, phase, rng, size, input, result, shrinks,
                   next_shrunk_input, threads, issued, completed, num_grow,
                   num_shrink, num_faults, outcome, runs, prev, checked>>

(* lines 68-71, result is Err: the shrink loop starts from this input *)
TestFailed ==
    /\ pc = "tested"
    /\ result.is_err
    /\ failure' = result.err
    /\ shrunk_input' = input
    /\ shrunk_failure' = result.err
    /\ shrinks' = 0
    /\ phase' = "Shrinking"
    /\ pc' = "shrink_loop"
    /\ UNCHANGED <<config, f, ty, rng, test, size, input, result,
                   next_shrunk_input, threads, issued, completed, num_grow,
                   num_shrink, num_faults, outcome, runs, prev, checked>>

ShrinkStepFromOriginal ==
    /\ pc = "shrink_loop"
    /\ shrinks < config.max_shrinks
    /\ \E coin \in BOOLEAN :
         LET sh == Shrink(ty, config.seed, rng, input, coin)
         IN  /\ sh.ok
             /\ next_shrunk_input' = sh.val
             /\ rng' = rng + sh.used
    /\ num_shrink' = num_shrink + 1
    /\ pc' = "catch"
    /\ UNCHANGED <<config, f, ty, phase, test, size, input, result, failure,
                   shrunk_input, shrunk_failure, shrinks, threads, issued,
                   completed, num_grow, num_faults, outcome, runs, prev,
                   checked>>

(* lines 72-73: the next candidate, shrunk from the current shrunk_input;
   coin is what the unseeded random() of lines 131 and 221 returns *)
ShrinkStep ==
    /\ pc = "shrink_loop"
    /\ shrinks < config.max_shrinks
    /\ \E coin \in BOOLEAN :
         LET sh == Shrink(ty, config.seed, rng, shrunk_input, coin)
         IN  /\ sh.ok
             /\ next_shrunk_input' = sh.val
             /\ rng' = rng + sh.used
    /\ num_shrink' = num_shrink + 1
    /\ pc' = "catch"
    /\ UNCHANGED <<config, f, ty, phase, test, size, input, result, failure,
                   shrunk_input, shrunk_failure, shrinks, threads, issued,
                   completed, num_grow, num_faults, outcome, runs, prev, checked>>

(* line 73: the unwrap of char::shrink (line 113) panics *)
ShrinkPanics ==
    /\ pc = "shrink_loop"
    /\ shrinks < config.max_shrinks
    /\ \E coin \in BOOLEAN :
         ~Shrink(ty, config.seed, rng, shrunk_input, coin).ok
    /\ num_shrink' = num_shrink + 1
    /\ pc' = "panicked"
    /\ phase' = "Done"
    /\ outcome' = Aborted
    /\ UNCHANGED <<config, f, ty, rng, test, size, input, result, failure,
                   shrunk_input, shrunk_failure, shrinks, next_shrunk_input,
                   threads, issued, completed, num_grow, num_faults, runs,
                   prev, checked>>

AcceptsAlways(res) == TRUE

(* line 75: whether the candidate replaces shrunk_input *)
Accepts(res) == res.is_err

ShrinkTestedKeepsDetail ==
    /\ pc = "shrunk"
    /\ IF Accepts(result)
       THEN /\ shrunk_input' = next_shrunk_input
            /\ UNCHANGED shrunk_failure
       ELSE UNCHANGED <<shrunk_input, shrunk_failure>>
    /\ shrinks' = shrinks + 1
    /\ pc' = "shrink_loop"
    /\ UNCHANGED <<config, f, ty, phase, rng, test, size, input, result,
                   failure, next_shrunk_input, threads, issued, completed,
                   num_grow, num_shrink, num_faults, outcome, runs, prev,
                   checked>>

(* lines 75-78 *)
ShrinkTested ==
    /\ pc = "shrunk"
    /\ IF Accepts(result)
       THEN /\ shrunk_input' = next_shrunk_input
            /\ shrunk_failure' = result.err
       ELSE UNCHANGED <<shrunk_input, shrunk_failure>>
    /\ shrinks' = shrinks + 1
    /\ pc' = "shrink_loop"
    /\ UNCHANGED <<config, f, ty, phase, rng, test, size, input, result,
                   failure, next_shrunk_input, threads, issued, completed,
                   num_grow, num_shrink, num_faults, outcome, runs, prev, checked>>

(* lines 80-86 *)
ReturnFailure ==
    /\ pc = "shrink_loop"
    /\ shrinks >= config.max_shrinks
    /\ outcome' = Failure(test, input, failure, shrunk_input, shrunk_failure)
    /\ phase' = "Done"
    /\ pc' = "done"
    /\ UNCHANGED <<config, f, ty, rng, test, size, input, result, failure,
                   shrunk_input, shrunk_failure, shrinks, next_shrunk_input,
                   threads, issued, completed, num_grow, num_shrink,
                   num_faults, runs, prev, checked>>

(* line 89 *)
ReturnSuccess ==
    /\ pc = "loop"
    /\ LoopDone(config, test)
    /\ outcome' = Success
    /\ phase' = "Done"
    /\ pc' = "done"
    /\ UNCHANGED <<config, f, ty, rng, test, size, input, result, failure,
                   shrunk_input, shrunk_failure, shrinks, next_shrunk_input,
                   threads, issued, completed, num_grow, num_shrink,
                   num_faults, runs, prev, checked>>

(* lines 40-45 and 93: check unwraps the value run returned *)
Unwrap ==
    /\ pc = "done"
    /\ checked = "pending"
    /\ checked' = IF outcome = Success THEN "returned" ELSE "panicked"
    /\ UNCHANGED <<config, f, ty, pc, phase, rng, test, size, input, result,
                   failure, shrunk_input, shrunk_failure, shrinks,
                   next_shrunk_input, threads, issued, completed, num_grow,
                   num_shrink, num_faults, outcome, runs, prev>>

(* line 93: a panic that unwinds out of run unwinds out of check as well *)
CheckUnwinds ==
    /\ pc = "panicked"
    /\ checked = "pending"
    /\ checked' = "panicked"
    /\ UNCHANGED <<config, f, ty, pc, phase, rng, test, size, input, result,
                   failure, shrunk_input, shrunk_failure, shrinks,
                   next_shrunk_input, threads, issued, completed, num_grow,
                   num_shrink, num_faults, outcome, runs, prev>>

Next ==
    \/ Start
    \/ GrowStep
    \/ GrowPanics
    \/ Spawn
    \/ ThreadRun
    \/ Join
    \/ TestPassed
    \/ TestFailed
    \/ ShrinkStep
    \/ ShrinkPanics
    \/ ShrinkTested
    \/ ReturnFailure
    \/ ReturnSuccess
    \/ Unwrap
    \/ CheckUnwinds

Spec == Init /\ [][Next]_vars

----------------------------------------------------------------------------
(* A second call of run with the same predicate and the same config. *)

MaxRuns == 2

Rerun ==
    /\ pc \in {"done", "panicked"}
    /\ runs < MaxRuns
    /\ runs' = runs + 1
    /\ prev' = outcome
    /\ pc' = "start"
    /\ phase' = "Running"
    /\ rng' = 0
    /\ test' = 0
    /\ size' = [num |-> 0, den |-> 1]
    /\ input' = NoValue
    /\ result' = ResOk
    /\ failure' = ""
    /\ shrunk_input' = NoValue
    /\ shrunk_failure' = ""
    /\ shrinks' = 0
    /\ next_shrunk_input' = NoValue
    /\ threads' = {}
    /\ issued' = <<>>
    /\ completed' = <<>>
    /\ num_grow' = 0
    /\ num_shrink' = 0
    /\ num_faults' = 0
    /\ outcome' = NoOutcome
    /\ checked' = "pending"
    /\ UNCHANGED <<config, f, ty>>

NextRepeat ==
    \/ Next
    \/ Rerun

SpecRepeat == Init /\ [][NextRepeat]_vars

----------------------------------------------------------------------------
(* Terminal states of run *)

Returned == pc = "done"

Ended == pc \in {"done", "panicked"}

IsFailure == outcome.variant = "Failure"

----------------------------------------------------------------------------
(* C1: throughout the shrink loop shrunk_input is a value on which the
   predicate faults, and so is the shrunk_input of every Failure returned. *)
C1_MonotoneAcceptance ==
    /\ (phase = "Shrinking") => Faults(f, ty, shrunk_input)
    /\ IsFailure => Faults(f, ty, outcome.shrunk_input)

(* an accepted candidate followed by a passing one that was discarded *)
C1_Witness ==
    /\ pc = "shrink_loop"
    /\ shrinks = 2
    /\ ~result.is_err
    /\ next_shrunk_input # shrunk_input
    /\ shrunk_input # input
    /\ ~Faults(f, ty, next_shrunk_input)

(* C2: two calls of run with the same seed, config and predicate that both
   return, return the same result. *)
C2_Determinism ==
    (runs = 2 /\ Returned /\ prev # Aborted) => outcome = prev

(* C3: run never aborts with a panic of its own. *)
C3_RunNeverPanics == pc # "panicked"

(* C4: a predicate that panics with the message "oh noes" on every call,
   under max_tests > 0, makes run return Failure with num_tests = 0 and
   both details equal to the message. *)
C4_FaultIsolation ==
    (f = "oh_noes" /\ config.max_tests > 0) =>
        /\ pc # "panicked"
        /\ (pc \in {"tested", "shrunk"}) => result = ResErr("oh noes")
        /\ Returned =>
             /\ IsFailure
             /\ outcome.num_tests = 0
             /\ outcome.failure = "oh noes"
             /\ outcome.shrunk_failure = "oh noes"

C4_Witness ==
    /\ f = "oh_noes"
    /\ Returned
    /\ IsFailure
    /\ config.max_shrinks = 2
    /\ Len(completed) = 3

(* C5: with max_tests = 0 run returns Success without a call of grow and
   without an invocation of the predicate. *)
C5_VacuousSuccess ==
    (config.max_tests = 0) =>
        /\ pc \in {"start", "loop", "done"}
        /\ num_grow = 0
        /\ issued = <<>>
        /\ Returned => outcome = Success

C5_Witness ==
    /\ config.max_tests = 0
    /\ Returned
    /\ outcome = Success
    /\ f = "oh_noes"

----------------------------------------------------------------------------
(* shrink applied to values drawn from bounded sets, whatever run would
   have produced them. *)

MaxLen == 2

ScalarSamples == {0, 1, 2, 111, 60000}

ElemSamples == {0, 2, 111}

RawSamples == {0, 1, 2, 3, 4, 55296}

Values(t) ==
    CASE t \in {"u32", "char"} -> {<<n>> : n \in ScalarSamples}
      [] t \in {"String", "Vec"} ->
           UNION {[1..n -> ElemSamples] : n \in 0..MaxLen}
      [] OTHER -> [1..TupleArity(t) -> {0, 1, 2}]

InitShrink ==
    /\ ty \in InputTypes
    /\ f = "oh_noes"
    /\ config \in [seed : [1..2 -> RawSamples], max_size : {0},
                   max_tests : {1}, max_shrinks : {1}]
    /\ runs = 1
    /\ prev = NoOutcome
    /\ checked = "pending"
    /\ pc = "shrink_loop"
    /\ phase = "Shrinking"
    /\ rng = 0
    /\ test = 0
    /\ size = [num |-> 0, den |-> 1]
    /\ input \in Values(ty)
    /\ result = ResErr("oh noes")
    /\ failure = "oh noes"
    /\ shrunk_input = input
    /\ shrunk_failure = "oh noes"
    /\ shrinks = 0
    /\ next_shrunk_input = NoValue
    /\ threads = {}
    /\ issued = <<0>>
    /\ completed = <<0>>
    /\ num_grow = 1
    /\ num_shrink = 0
    /\ num_faults = 1
    /\ outcome = NoOutcome

NextShrink ==
    \/ ShrinkStep
    \/ ShrinkPanics

SpecShrink == InitShrink /\ [][NextShrink]_vars

(* the candidate c is no larger than the value v it was shrunk from *)
NoLarger(t, c, v) ==
    CASE t \in {"u32", "char"} -> c[1] <= v[1]
      [] t \in {"String", "Vec"} ->
           /\ Len(c) \in {Len(v), Len(v) - 1}
           /\ (Len(v) = 0) => (c = v)
      [] OTHER ->
           /\ Len(c) = Len(v)
           /\ \A i \in 1..Len(v) : c[i] <= v[i]

(* a candidate returned by shrink is waiting to be executed *)
CandidateReady ==
    phase = "Shrinking" /\ pc \in {"catch", "join", "shrunk"}

(* C6, as stated: under the spec's scenario config the run for the
   predicate "does not start with o" over String ends in Failure with
   shrunk_input = "o". *)
C6_ShrinksToO ==
    ( /\ ty = "String"
      /\ f = "not_o"
      /\ config.max_tests = 100
      /\ config.max_shrinks = 100
      /\ config.max_size = 100
      /\ Ended ) =>
        /\ IsFailure
        /\ outcome.shrunk_input = <<O_CODE>>

(* C6, amended: for the predicate "does not start with o" over String, run
   returns Success whenever 0 <= max_size < 111, and a Failure it returns has an
   input and a shrunk_input that start with 'o', the latter no longer than
   the former. *)
C6_ShrunkStartsWithO ==
    (ty = "String" /\ f = "not_o" /\ Returned) =>
        /\ (config.max_size >= 0 /\ config.max_size < O_CODE) =>
             outcome = Success
        /\ IsFailure =>
             /\ StartsWithO(outcome.input)
             /\ StartsWithO(outcome.shrunk_input)
             /\ Len(outcome.shrunk_input) <= Len(outcome.input)

(* a longer failing string was shrunk to exactly "o" *)
C6_Witness ==
    /\ ty = "String"
    /\ f = "not_o"
    /\ Returned
    /\ IsFailure
    /\ Len(outcome.input) > 1
    /\ outcome.shrunk_input = <<O_CODE>>

(* C7: the value shrink returns is no larger than its argument: by value
   for u32 and char, by length (equal or one less) for String and Vec,
   componentwise for tuples. *)
C7_ShrinkNonExpansion ==
    CandidateReady => NoLarger(ty, next_shrunk_input, shrunk_input)

(* an element of a vector was shrunk in place *)
C7_Witness ==
    /\ CandidateReady
    /\ ty = "Vec"
    /\ Len(next_shrunk_input) = Len(shrunk_input)
    /\ next_shrunk_input # shrunk_input

(* the size held in the variable size was passed to grow for index test *)
GrownForTest ==
    /\ num_grow > 0
    /\ pc \notin {"start", "loop"}
    /\ outcome # Success

(* C8: the size passed to grow for test index i is max_size * i / max_tests,
   it is 0 for the first test, and it never decreases during a run. *)
C8_SizeRamp ==
    /\ [](GrownForTest =>
            /\ size.num * config.max_tests = config.max_size * test * size.den
            /\ (test = 0) => (size.num = 0))
    /\ [][size'.num * size.den >= size.num * size'.den]_vars

C8_Witness ==
    /\ GrownForTest
    /\ test = 1
    /\ size.num > 0
    /\ size.num < config.max_size * size.den

RunningThreads == {t \in threads : t.state = "running"}

(* C9: at most one predicate invocation is in flight, the engine is blocked
   in join while it runs (it draws nothing and changes no loop state), and
   invocations complete in the order catch issued them. *)
C9_SynchronousIsolation ==
    /\ [](/\ Cardinality(threads) <= 1
          /\ (RunningThreads # {}) => (pc = "join")
          /\ Len(completed) <= Len(issued)
          /\ Len(issued) - Len(completed) <= 1
          /\ completed = SubSeq(issued, 1, Len(completed)))
    /\ [][(RunningThreads # {}) =>
            UNCHANGED <<pc, phase, rng, test, size, input, result, failure,
                        shrunk_input, shrunk_failure, shrinks,
                        next_shrunk_input, issued, outcome>>]_vars

C9_Witness ==
    /\ RunningThreads # {}
    /\ phase = "Shrinking"
    /\ Len(completed) = 2
    /\ Len(issued) = 3

(* C10: run returns Success exactly when every one of the max_tests inputs
   was generated and executed and none faulted; then max_tests invocations
   and no call of shrink were made. *)
C10_SuccessIffAllPassed ==
    Ended =>
        /\ (outcome = Success) <=>
             ( /\ num_grow = config.max_tests
               /\ Len(completed) = config.max_tests
               /\ num_faults = 0 )
        /\ (outcome = Success) =>
             /\ Len(issued) = config.max_tests
             /\ num_shrink = 0

C10_Witness ==
    /\ Returned
    /\ outcome = Success
    /\ config.max_tests = 2
    /\ f = "lt2"
    /\ input # <<0>>
    /\ Len(input) > 0

----------------------------------------------------------------------------
(* C11: check panics exactly when run returned Failure, and returns
   normally when run returned Success. *)
C11_CheckPanicsIffFailure ==
    /\ (checked = "panicked") <=> (Returned /\ IsFailure /\ checked # "pending")
    /\ (Returned /\ outcome = Success) => checked \in {"pending", "returned"}

(* the outcome of the invocation catch has just joined *)
JoinedOutcome == Apply(f, ty, CatchArg)

(* C12: a fault whose payload is no text is reported as the placeholder and
   handled like any other failure; a fault whose payload is a textual
   message is reported as that message. *)
C12_UnprintableFault ==
    /\ (pc \in {"tested", "shrunk"} /\ JoinedOutcome.kind = "panic") =>
         /\ result.is_err
         /\ JoinedOutcome.is_text => result.err = JoinedOutcome.msg
         /\ ~JoinedOutcome.is_text => result.err = UNPRINTABLE
    /\ (f = "boxed" /\ Returned /\ config.max_tests > 0) =>
         /\ IsFailure
         /\ outcome.failure = UNPRINTABLE

(* C13: the test loop stops at the first input that faults: no test is
   issued after a fault, the failing input is the only one that faulted
   among the test + 1 executed, num_tests is its index, and once shrinking
   the engine never grows an input or returns to Running. *)
C13_StopsAtFirstFailure ==
    /\ [](/\ (phase = "Running" /\ pc \in {"start", "loop", "catch"}) =>
               num_faults = 0
          /\ (pc = "shrink_loop" /\ shrinks = 0) =>
               /\ Len(completed) = test + 1
               /\ num_faults = 1
          /\ (phase = "Shrinking" \/ IsFailure) =>
               /\ Faults(f, ty, input)
               /\ num_grow = test + 1
          /\ IsFailure => outcome.num_tests = test)
    /\ [][(phase = "Shrinking") =>
            /\ phase' # "Running"
            /\ num_grow' = num_grow
            /\ test' = test
            /\ input' = input]_vars

(* a Failure found at the second test, after shrinking *)
C13_Witness ==
    /\ Returned
    /\ IsFailure
    /\ outcome.num_tests = 1
    /\ num_shrink = 2
    /\ Len(completed) = 4

(* cand is what shrink returns for v with the draws that end at rng *)
IsShrinkOf(cand, v) ==
    \E coin \in BOOLEAN, u \in 0..2 :
        /\ rng >= u
        /\ LET sh == Shrink(ty, config.seed, rng - u, v, coin)
           IN  /\ sh.ok
               /\ sh.used = u
               /\ sh.val = cand

(* C14: every candidate is the shrink of the current shrunk_input, the most
   recently accepted candidate or the original input if none was accepted. *)
C14_CumulativeShrinking ==
    CandidateReady => IsShrinkOf(next_shrunk_input, shrunk_input)

(* after an accepted candidate, a candidate that is no shrink of the
   original input *)
C14_Witness ==
    /\ CandidateReady
    /\ shrunk_input # input
    /\ ~IsShrinkOf(next_shrunk_input, input)

(* C15: the input and failure of a Failure are the first failing input and
   the detail of its execution; the shrink loop leaves them as they are and
   changes only shrunk_input and shrunk_failure, and with max_shrinks = 0
   the shrunk fields equal the original ones. *)
C15_ShrinkingFrame ==
    /\ [](/\ (phase = "Shrinking" \/ IsFailure) =>
                failure = print_panic(Apply(f, ty, input))
          /\ IsFailure =>
                /\ outcome.input = input
                /\ outcome.failure = failure
                /\ outcome.shrunk_input = shrunk_input
                /\ outcome.shrunk_failure = shrunk_failure
          /\ (IsFailure /\ config.max_shrinks = 0) =>
                /\ outcome.shrunk_input = outcome.input
                /\ outcome.shrunk_failure = outcome.failure)
    /\ [][(phase = "Shrinking") =>
             /\ input' = input
             /\ failure' = failure
             /\ test' = test]_vars

(* a Failure after one accepted and one rejected candidate, whose shrunk
   fields both differ from the original ones *)
C15_Witness ==
    /\ Returned
    /\ IsFailure
    /\ num_shrink = 2
    /\ num_faults = 2
    /\ outcome.shrunk_input # outcome.input
    /\ outcome.shrunk_failure # outcome.failure

(* C18: throughout the shrink loop and in the returned Failure,
   shrunk_failure is the detail of executing the value in shrunk_input. *)
C18_DetailPairing ==
    /\ (phase = "Shrinking" \/ IsFailure) =>
          shrunk_failure = print_panic(Apply(f, ty, shrunk_input))
    /\ IsFailure =>
          outcome.shrunk_failure =
              print_panic(Apply(f, ty, outcome.shrunk_input))

(* inside the shrink loop, just after a candidate with another detail than
   the original input's was accepted *)
C18_Witness ==
    /\ phase = "Shrinking"
    /\ pc = "shrink_loop"
    /\ shrinks = 1
    /\ shrunk_input = next_shrunk_input
    /\ shrunk_input # input
    /\ shrunk_failure # failure

(* The counting part of C16 on its own: a run whose predicate always
   returns or faults is never stuck before it ends, issues at most
   max_tests + max_shrinks invocations and exactly
   num_tests + 1 + max_shrinks on Failure; a run whose predicate never
   returns does not reach Done. *)
InvocationCounts ==
    /\ (f # "spin") =>
          /\ ~Ended => ENABLED Next
          /\ Len(issued) <= config.max_tests + config.max_shrinks
          /\ IsFailure =>
                Len(issued) = outcome.num_tests + 1 + config.max_shrinks
    /\ (f = "spin" /\ config.max_tests > 0) => ~Returned

(* C16: if every invocation returns or faults, run is never stuck before
   Done and never ends otherwise than in Done, with at most
   max_tests + max_shrinks invocations, and exactly
   num_tests + 1 + max_shrinks of them on Failure; if an invocation never
   returns, run never reaches Done. *)
C16_Termination ==
    /\ InvocationCounts
    /\ (f # "spin" /\ Ended) => Returned

(* the component index the tuple shrink that made the candidate drew *)
DrawnComponent == Sample(0, TupleArity(ty), Raw(config.seed, rng - 2)) + 1

(* C17: the shrink of a tuple of 2 to 5 components draws one component
   index from the seeded generator, replaces that component by its shrink
   and returns every other component as it was. *)
C17_TupleShrinkOneComponent ==
    (CandidateReady /\ TupleArity(ty) > 0) =>
        /\ Len(next_shrunk_input) = TupleArity(ty)
        /\ Len(shrunk_input) = TupleArity(ty)
        /\ DrawnComponent \in 1..TupleArity(ty)
        /\ next_shrunk_input[DrawnComponent] =
              ShrinkScalar("u32", config.seed, rng - 1,
                           shrunk_input[DrawnComponent]).val
        /\ \A k \in 1..TupleArity(ty) :
              (k # DrawnComponent) => next_shrunk_input[k] = shrunk_input[k]

(* the last component of a 5-tuple was drawn and shrunk to a smaller
   value, next to other components that a shrink could have changed *)
C17_Witness ==
    /\ CandidateReady
    /\ ty = "tuple5"
    /\ DrawnComponent = 5
    /\ next_shrunk_input[5] < shrunk_input[5]
    /\ \E k \in 1..4 : shrunk_input[k] > 0

IsSequenceType == ty \in {"String", "Vec"}

(* C19: for String and Vec inputs an accepted shrink step removes at most
   one element, so a Failure has
   len(input) - max_shrinks <= len(shrunk_input) <= len(input), and no
   one-element shrunk_input when max_shrinks < len(input) - 1. *)
C19_BoundedShrinkProgress ==
    /\ [](/\ (IsSequenceType /\ phase = "Shrinking") =>
                /\ Len(shrunk_input) <= Len(input)
                /\ Len(shrunk_input) >= Len(input) - shrinks
          /\ (IsSequenceType /\ IsFailure) =>
                /\ Len(outcome.shrunk_input) <= Len(outcome.input)
                /\ Len(outcome.shrunk_input) >=
                      Len(outcome.input) - config.max_shrinks
                /\ (config.max_shrinks < Len(outcome.input) - 1) =>
                      Len(outcome.shrunk_input) # 1)
    /\ [][(IsSequenceType /\ phase = "Shrinking") =>
             /\ Len(shrunk_input') <= Len(shrunk_input)
             /\ Len(shrunk_input') >= Len(shrunk_input) - 1]_vars

(* a three-element input with one shrink attempt, which was accepted and
   removed an element *)
C19_Witness ==
    /\ Returned
    /\ IsFailure
    /\ IsSequenceType
    /\ config.max_shrinks = 1
    /\ Len(outcome.input) = 3
    /\ Len(outcome.shrunk_input) = 2

====
